---- MODULE Spec2Model ----
(***************************************************************************)
(* The Grafana provisioning bot: the Telegram command handlers of          *)
(* app/bot/handlers/projects.py driving GrafanaService                     *)
(* (app/services/grafana.py) against a remote Grafana.                     *)
(*                                                                         *)
(* Every remote call is one atomic step of the invocation that issues it:  *)
(* the request, the remote platform's answer and the code that follows up  *)
(* to the next await on the HTTP client.  Invocations interleave between   *)
(* remote calls, as coroutines of one event loop do.                       *)
(***************************************************************************)
EXTENDS Integers, Sequences, FiniteSets, TLC

\* ------------------------------------------------------------------ bounds

\* Highest organization id the remote platform hands out (id 1 is "Main Org.").
MaxOrgId == 3

\* Highest service-account id the remote platform hands out.
MaxSaId == 2

\* Invocations (commands handled, service methods called) in one run.
MaxCommands == 3

\* Concurrent handler / service invocations (aiogram handles updates as tasks).
Procs == {"p1", "p2"}

\* ------------------------------------------------------------------ inputs

\* The built-in organization's name, "Main Org.", as a sequence of characters.
MainOrgName == <<"M", "a", "i", "n", " ", "O", "r", "g", ".">>

\* Project names a command may carry (a command argument holds no blank).
ProjectNames == {<<"A", "c", "m", "e">>, <<"B", "o", "b">>}

\* settings.TELEGRAM_ADMIN_CHAT_ID and the chats a message may come from.
TELEGRAM_ADMIN_CHAT_ID == "admin-chat"
ChatIds == {TELEGRAM_ADMIN_CHAT_ID, "other-chat"}

\* The <chat_id> argument of /create_project.
ChatIdArgs == {"12345"}

\* DatasourceNames with logs provisioned before metrics.
DatasourceNamesLogsFirst == <<"Loki", "Prometheus", "Tempo">>

\* The three datasource definitions of add_datasources, in list order.
DatasourceNames == <<"Prometheus", "Loki", "Tempo">>

\* ------------------------------------------------------------------ state

VARIABLES
    \* the remote platform
    orgs,             \* set of [id, name]: the organizations that exist
    nextOrgId,        \* the id the next created organization gets
    datasources,      \* set of <<org id, datasource name>>
    folders,          \* set of [org, uid, title]
    serviceAccounts,  \* set of [org, id]
    nextSaId,         \* the id the next created service account gets
    alertmanager,     \* set of org ids whose Alertmanager config was posted
    \* one invocation per process
    cmd,              \* the handler or service method the process runs
    pc,               \* its position
    project_name,     \* local: project_name / name
    chat_id,          \* local: the chat id argument
    message_chat,     \* message.chat.id of the update a handler answers ("": none)
    org_id,           \* local: org_id (0: unset)
    sa_id,            \* local: sa_id (0: unset)
    ds_i,             \* local: index of the datasource the loop is at
    ret,              \* the value a service method returned
    exc,              \* the exception the invocation ended with, or NoExc
    replies,          \* the messages the handler answered, in order
    calls,            \* history: the remote calls the invocation issued
    started           \* how many invocations have begun so far

remoteVars == <<orgs, nextOrgId, datasources, folders, serviceAccounts,
                nextSaId, alertmanager>>
localVars == <<cmd, pc, project_name, chat_id, message_chat, org_id, sa_id, ds_i, ret, exc,
               replies, calls>>
vars == <<remoteVars, localVars, started>>


\* ------------------------------------------------------------ exceptions

NoExc == [kind |-> "none", msg |-> ""]

\* class GrafanaError(Exception), carrying its message.
GrafanaError(msg) == [kind |-> "GrafanaError", msg |-> msg]

\* The one message every `except httpx.RequestError` clause raises.
CannotReach == GrafanaError("Cannot reach Grafana")

\* httpx.RequestError itself, where no clause converts it.
RequestError == [kind |-> "httpx.RequestError", msg |-> "transport"]

\* GrafanaService defines no create_telegram_contact_point: looking the
\* attribute up raises AttributeError before any request is made.
AttributeError ==
    [kind |-> "AttributeError",
     msg |-> "'GrafanaService' object has no attribute 'create_telegram_contact_point'"]

\* --------------------------------------------------------------- replies

Reply(text, msg) == [text |-> text, msg |-> msg]

\* _is_admin letting every chat in.
_is_admin_anyone(chat) == TRUE

\* message.chat.id == settings.TELEGRAM_ADMIN_CHAT_ID
_is_admin(chat) == chat = TELEGRAM_ADMIN_CHAT_ID

\* ----------------------------------------------------------- remote calls

\* A remote call as the invocation saw it: the request and the status of the
\* answer ("RequestError": no answer, httpx raised).
Call(op, status, org, ds) == [op |-> op, status |-> status, org |-> org, ds |-> ds]

\* Answers the platform or the network may give to any request, leaving the
\* remote state as it was.
Faults == {"500", "RequestError"}

Log(p, c) == calls' = [calls EXCEPT ![p] = Append(@, c)]

OrgNamed(name) == {o \in orgs : o.name = name}
OrgWithId(id) == {o \in orgs : o.id = id}

\* GET /api/orgs/name/{name}
LookupStatuses(name) ==
    {IF OrgNamed(name) /= {} THEN "200" ELSE "404"} \cup Faults

\* POST /api/orgs: the platform keeps organization names unique and never
\* hands an id out twice.
CreateOrgStatuses(name) ==
    (IF OrgNamed(name) /= {} THEN {"409"}
     ELSE IF nextOrgId <= MaxOrgId THEN {"200"} ELSE {})
    \cup Faults

\* POST /api/datasources under X-Grafana-Org-Id: names are unique per org.
AddDatasourceStatuses(org, ds) ==
    (IF OrgWithId(org) = {} THEN {"404"}
     ELSE IF <<org, ds>> \in datasources THEN {"409"} ELSE {"200"})
    \cup Faults

\* POST /api/folders under X-Grafana-Org-Id: uids are unique per org.
CreateFolderStatuses(org, uid) ==
    (IF OrgWithId(org) = {} THEN {"404"}
     ELSE IF \E f \in folders : f.org = org /\ f.uid = uid THEN {"412"}
     ELSE {"200"})
    \cup Faults

\* ------------------------------------------------------------- handlers

\* HandlerExcept as a handler that undoes its work would be: the organization
\* the invocation holds is deleted again before the answer.
HandlerExceptRollback(p, e) ==
    /\ exc' = [exc EXCEPT ![p] = e]
    /\ replies' = [replies EXCEPT ![p] =
           Append(@, IF e.kind = "GrafanaError" THEN Reply("Error", e.msg)
                     ELSE Reply("Unexpected error", e.msg))]
    /\ pc' = [pc EXCEPT ![p] = "done"]
    /\ orgs' = {o \in orgs : o.id /= org_id[p]}
    /\ datasources' = {d \in datasources : d[1] /= org_id[p]}
    /\ folders' = {f \in folders : f.org /= org_id[p]}
    /\ serviceAccounts' = {a \in serviceAccounts : a.org /= org_id[p]}
    /\ alertmanager' = alertmanager \ {org_id[p]}
    /\ UNCHANGED <<nextOrgId, nextSaId>>

\* HandlerExcept without the answer to the chat.
HandlerExceptSilent(p, e) ==
    /\ exc' = [exc EXCEPT ![p] = e]
    /\ pc' = [pc EXCEPT ![p] = "done"]
    /\ UNCHANGED <<replies, remoteVars>>

\* HandlerExcept leaving the handler where it was, to make the call again.
HandlerExceptRetry(p, e) ==
    /\ exc' = [exc EXCEPT ![p] = e]
    /\ replies' = [replies EXCEPT ![p] = Append(@, Reply("Error", e.msg))]
    /\ UNCHANGED <<pc, remoteVars>>

\* The except clauses every handler ends with: a GrafanaError is answered
\* "Error: ...", anything else "Unexpected error: ...".  Nothing is undone.
HandlerExcept(p, e) ==
    /\ exc' = [exc EXCEPT ![p] = e]
    /\ replies' = [replies EXCEPT ![p] =
           Append(@, IF e.kind = "GrafanaError" THEN Reply("Error", e.msg)
                     ELSE Reply("Unexpected error", e.msg))]
    /\ pc' = [pc EXCEPT ![p] = "done"]
    /\ UNCHANGED remoteVars

\* A service method ends by raising `e` to its caller.
ServiceRaise(p, e) ==
    /\ exc' = [exc EXCEPT ![p] = e]
    /\ pc' = [pc EXCEPT ![p] = "done"]
    /\ UNCHANGED <<remoteVars, replies>>

\* A service method raises `e`: into the handler's except clauses when a
\* handler called it, to its caller otherwise.
Raise(p, e) ==
    IF cmd[p] \in {"create_project", "list_projects", "delete_project"}
    THEN HandlerExcept(p, e)
    ELSE ServiceRaise(p, e)

\* An idle process takes the next update.
Begin(p) ==
    /\ pc[p] = "idle"
    /\ started < MaxCommands
    /\ started' = started + 1

\* CreateProjectNext with the folder and the datasources swapped.
CreateProjectNextSwapped(step) ==
    CASE step = "create_organization" -> "create_folder"
      [] step = "create_folder" -> "add_datasources"
      [] step = "add_datasources" -> "create_telegram_contact_point"

\* The statements of cmd_create_project's try block, in order: what follows
\* each service call that returned.
CreateProjectNext(step) ==
    CASE step = "create_organization" -> "add_datasources"
      [] step = "add_datasources" -> "create_folder"
      [] step = "create_folder" -> "create_telegram_contact_point"

\* Where an invocation goes when a service method returns: on in the
\* handler's try block, or back to the method's caller.
Returned(p, step) ==
    IF cmd[p] = "create_project" THEN CreateProjectNext(step) ELSE "done"

\* /start, /help: the admin check and the list of commands.
cmd_help(p) ==
    /\ Begin(p)
    /\ \E chat \in ChatIds :
         /\ cmd' = [cmd EXCEPT ![p] = "help"]
         /\ message_chat' = [message_chat EXCEPT ![p] = chat]
         /\ replies' = [replies EXCEPT ![p] =
                <<IF ~_is_admin(chat) THEN Reply("Unauthorized.", "")
                  ELSE Reply("available commands", "")>>]
         /\ pc' = [pc EXCEPT ![p] = "done"]
    /\ UNCHANGED <<remoteVars, project_name, chat_id, org_id, sa_id, ds_i, ret,
                   exc, calls>>

\* /create_project: the admin check, the argument check, the first answer.
StartCreateProject(p) ==
    /\ Begin(p)
    /\ \E chat \in ChatIds, nargs \in 0..2, name \in ProjectNames, cid \in ChatIdArgs :
         /\ cmd' = [cmd EXCEPT ![p] = "create_project"]
         /\ message_chat' = [message_chat EXCEPT ![p] = chat]
         /\ IF ~_is_admin(chat)
            THEN /\ replies' = [replies EXCEPT ![p] = <<Reply("Unauthorized.", "")>>]
                 /\ pc' = [pc EXCEPT ![p] = "done"]
                 /\ UNCHANGED <<project_name, chat_id>>
            ELSE IF nargs < 2
            THEN /\ replies' = [replies EXCEPT ![p] = <<Reply("Usage", "")>>]
                 /\ pc' = [pc EXCEPT ![p] = "done"]
                 /\ UNCHANGED <<project_name, chat_id>>
            ELSE /\ project_name' = [project_name EXCEPT ![p] = name]
                 /\ chat_id' = [chat_id EXCEPT ![p] = cid]
                 /\ replies' = [replies EXCEPT ![p] = <<Reply("Creating project", "")>>]
                 /\ pc' = [pc EXCEPT ![p] = "create_organization:get"]
    /\ UNCHANGED <<remoteVars, org_id, sa_id, ds_i, ret, exc, calls>>


\* ----------------------------------------------- GrafanaService, as called
\*                                                 by cmd_create_project

\* OrgAlreadyExists with the existence check left out.
OrgAlreadyExistsUnchecked(status) == FALSE

\* create_organization: `if check.status_code == 200`
OrgAlreadyExists(status) == status = "200"

\* CreateOrgFailed with the platform's conflict taken for a success.
CreateOrgFailedExceptConflict(status) == status \notin {"200", "201", "409"}

\* create_organization: `if resp.status_code not in (200, 201)`
CreateOrgFailed(status) == status \notin {"200", "201"}

\* AddDatasourceFailed with the conflict taken for a failure.
AddDatasourceFailedOn409(status) == status \notin {"200", "201"}

\* add_datasources: `if resp.status_code not in (200, 201, 409)`
AddDatasourceFailed(status) == status \notin {"200", "201", "409"}

\* CreateFolderFailed with "uid already exists" taken for a failure.
CreateFolderFailedOn412(status) == status \notin {"200", "201"}

\* create_folder: `if resp.status_code not in (200, 201, 412)`
CreateFolderFailed(status) == status \notin {"200", "201", "412"}

UpperCase == <<"A", "B", "C", "D", "E", "F", "G", "H", "I", "J", "K", "L", "M",
               "N", "O", "P", "Q", "R", "S", "T", "U", "V", "W", "X", "Y", "Z">>
LowerCase == <<"a", "b", "c", "d", "e", "f", "g", "h", "i", "j", "k", "l", "m",
               "n", "o", "p", "q", "r", "s", "t", "u", "v", "w", "x", "y", "z">>

\* U+0130, LATIN CAPITAL LETTER I WITH DOT ABOVE, as one character, and
\* U+0307, COMBINING DOT ABOVE: str.lower() turns the first into "i" followed
\* by the second.
CapitalIWithDot == "U+0130"
CombiningDot == "U+0307"

\* str.lower() on one character: the characters it becomes.
LowerChar(c) ==
    IF \E i \in DOMAIN UpperCase : UpperCase[i] = c
    THEN <<LowerCase[CHOOSE i \in DOMAIN UpperCase : UpperCase[i] = c]>>
    ELSE IF c = CapitalIWithDot THEN <<"i", CombiningDot>>
    ELSE <<c>>

\* str.lower()
RECURSIVE Lower(_)
Lower(str) ==
    IF str = <<>> THEN <<>> ELSE LowerChar(Head(str)) \o Lower(Tail(str))

\* str.replace(" ", "-")
ReplaceSpaces(str) == [i \in DOMAIN str |-> IF str[i] = " " THEN "-" ELSE str[i]]

\* FolderUid without the slice.
FolderUidUntruncated(name) == ReplaceSpaces(Lower(name))

\* The slice bound of `[:40]`.
UidMaxLen == 40

\* uid = project_name.lower().replace(" ", "-")[:40]
FolderUid(name) ==
    LET replaced == ReplaceSpaces(Lower(name))
    IN  SubSeq(replaced, 1, IF Len(replaced) < UidMaxLen THEN Len(replaced)
                            ELSE UidMaxLen)

\* _client(org_id) without the header: the request lands in the operator's
\* current organization, "Main Org.".
OrgScopeDefault(p) == 1

\* _client(org_id): headers["X-Grafana-Org-Id"] = str(org_id)
OrgScope(p) == org_id[p]

\* What a step of a service method leaves alone besides pc, exc, replies,
\* calls and the remote state.
KeepLocals == UNCHANGED <<cmd, project_name, chat_id, message_chat, sa_id, ret, started>>

\* create_organization, the existence check: GET /api/orgs/name/{name}.
CreateOrganizationCheck(p) ==
    /\ cmd[p] = "create_project" /\ pc[p] = "create_organization:get"
    /\ \E st \in LookupStatuses(project_name[p]) :
         /\ Log(p, Call("GET /api/orgs/name", st, 0, ""))
         /\ IF st = "RequestError" THEN HandlerExcept(p, CannotReach)
            ELSE IF OrgAlreadyExists(st)
            THEN HandlerExcept(p, GrafanaError("Organization already exists"))
            ELSE /\ pc' = [pc EXCEPT ![p] = "create_organization:post"]
                 /\ UNCHANGED <<remoteVars, exc, replies>>
    /\ KeepLocals /\ UNCHANGED <<org_id, ds_i>>

\* create_organization, the creation: POST /api/orgs, returning orgId.
CreateOrganizationPost(p) ==
    /\ cmd[p] = "create_project" /\ pc[p] = "create_organization:post"
    /\ \E st \in CreateOrgStatuses(project_name[p]) :
         /\ Log(p, Call("POST /api/orgs", st, 0, ""))
         /\ IF st = "RequestError"
            THEN HandlerExcept(p, CannotReach) /\ UNCHANGED <<org_id, ds_i>>
            ELSE IF CreateOrgFailed(st)
            THEN /\ HandlerExcept(p, GrafanaError("Failed to create organization"))
                 /\ UNCHANGED <<org_id, ds_i>>
            ELSE /\ orgs' = orgs \cup {[id |-> nextOrgId, name |-> project_name[p]]}
                 /\ nextOrgId' = nextOrgId + 1
                 /\ org_id' = [org_id EXCEPT ![p] = nextOrgId]
                 /\ ds_i' = [ds_i EXCEPT ![p] = 1]
                 /\ pc' = [pc EXCEPT ![p] = CreateProjectNext("create_organization")]
                 /\ UNCHANGED <<datasources, folders, serviceAccounts, nextSaId,
                                alertmanager, exc, replies>>
    /\ KeepLocals

\* add_datasources, one turn of `for ds in datasources`: POST /api/datasources.
AddDatasource(p) ==
    /\ cmd[p] \in {"create_project", "add_datasources"} /\ pc[p] = "add_datasources"
    /\ LET ds == DatasourceNames[ds_i[p]] IN
       \E st \in AddDatasourceStatuses(OrgScope(p), ds) :
         /\ Log(p, Call("POST /api/datasources", st, OrgScope(p), ds))
         /\ IF st = "RequestError"
            THEN Raise(p, CannotReach) /\ UNCHANGED ds_i
            ELSE IF AddDatasourceFailed(st)
            THEN /\ Raise(p, GrafanaError("Failed to add datasource " \o ds))
                 /\ UNCHANGED ds_i
            ELSE /\ datasources' = IF st = "409" THEN datasources
                                   ELSE datasources \cup {<<OrgScope(p), ds>>}
                 /\ IF ds_i[p] < Len(DatasourceNames)
                    THEN /\ ds_i' = [ds_i EXCEPT ![p] = @ + 1]
                         /\ UNCHANGED pc
                    ELSE /\ pc' = [pc EXCEPT ![p] = Returned(p, "add_datasources")]
                         /\ UNCHANGED ds_i
                 /\ UNCHANGED <<orgs, nextOrgId, folders, serviceAccounts, nextSaId,
                                alertmanager, exc, replies>>
    /\ KeepLocals /\ UNCHANGED org_id

\* create_folder: POST /api/folders with the derived uid.
CreateFolder(p) ==
    /\ cmd[p] \in {"create_project", "create_folder"} /\ pc[p] = "create_folder"
    /\ LET uid == FolderUid(project_name[p]) IN
       \E st \in CreateFolderStatuses(OrgScope(p), uid) :
         /\ Log(p, Call("POST /api/folders", st, OrgScope(p), ""))
         /\ IF st = "RequestError" THEN Raise(p, CannotReach)
            ELSE IF CreateFolderFailed(st)
            THEN Raise(p, GrafanaError("Failed to create folder"))
            ELSE /\ folders' = IF st = "412" THEN folders
                               ELSE folders \cup {[org |-> OrgScope(p), uid |-> uid,
                                                  title |-> project_name[p]]}
                 /\ pc' = [pc EXCEPT ![p] = Returned(p, "create_folder")]
                 /\ UNCHANGED <<orgs, nextOrgId, datasources, serviceAccounts,
                                nextSaId, alertmanager, exc, replies>>
    /\ KeepLocals /\ UNCHANGED <<org_id, ds_i>>

\* `await grafana.create_telegram_contact_point(...)`: GrafanaService has no
\* such method (nor set_notification_policy), so the attribute lookup raises
\* AttributeError, which `except Exception` answers.  The success answer of
\* lines 74-79 is never reached.
CreateTelegramContactPoint(p) ==
    /\ cmd[p] = "create_project" /\ pc[p] = "create_telegram_contact_point"
    /\ HandlerExcept(p, AttributeError)
    /\ KeepLocals /\ UNCHANGED <<org_id, ds_i, calls>>

\* ----------------------------------------------- /list_projects

\* GET /api/orgs: the answer's body lists the organizations, here by id.
ListOrgsStatuses == {"200"} \cup Faults

RECURSIVE SortById(_)
SortById(S) ==
    IF S = {} THEN <<>>
    ELSE LET first == CHOOSE o \in S : \A x \in S : o.id <= x.id
         IN  <<first>> \o SortById(S \ {first})

\* list_organizations: `if resp.status_code != 200`
ListOrgsFailed(status) == status /= "200"

\* ListFilter without the filter.
ListFilterNone(body) == body

\* list_organizations: `[o for o in orgs if o["name"] != "Main Org."]`
NotMainOrg(o) == o.name /= MainOrgName
ListFilter(body) == SelectSeq(body, NotMainOrg)

\* /list_projects: the admin check.
StartListProjects(p) ==
    /\ Begin(p)
    /\ \E chat \in ChatIds :
         /\ cmd' = [cmd EXCEPT ![p] = "list_projects"]
         /\ message_chat' = [message_chat EXCEPT ![p] = chat]
         /\ IF ~_is_admin(chat)
            THEN /\ replies' = [replies EXCEPT ![p] = <<Reply("Unauthorized.", "")>>]
                 /\ pc' = [pc EXCEPT ![p] = "done"]
            ELSE /\ pc' = [pc EXCEPT ![p] = "list_organizations"]
                 /\ UNCHANGED replies
    /\ UNCHANGED <<remoteVars, project_name, chat_id, org_id, sa_id, ds_i, ret,
                   exc, calls>>

\* list_organizations and the handler's answer.  `body` is resp.json().
ListOrganizations(p) ==
    /\ cmd[p] = "list_projects" /\ pc[p] = "list_organizations"
    /\ \E st \in ListOrgsStatuses :
         /\ Log(p, Call("GET /api/orgs", st, 0, ""))
         /\ IF st = "RequestError"
            THEN HandlerExcept(p, CannotReach) /\ UNCHANGED ret
            ELSE IF ListOrgsFailed(st)
            THEN /\ HandlerExcept(p, GrafanaError("Failed to list organizations"))
                 /\ UNCHANGED ret
            ELSE LET body == SortById(orgs)
                     listed == ListFilter(body)
                 IN  /\ ret' = [ret EXCEPT ![p] = [body |-> body, orgs |-> listed]]
                     /\ replies' = [replies EXCEPT ![p] =
                            Append(@, IF listed = <<>>
                                      THEN Reply("No projects found.", "")
                                      ELSE Reply("Projects:", ""))]
                     /\ pc' = [pc EXCEPT ![p] = "done"]
                     /\ UNCHANGED <<remoteVars, exc>>
    /\ UNCHANGED <<cmd, project_name, chat_id, message_chat, org_id, sa_id, ds_i, started>>

\* ----------------------------------------------- /delete_project

\* DELETE /api/orgs/{id}
DeleteOrgStatuses(id) ==
    {IF OrgWithId(id) /= {} THEN "200" ELSE "404"} \cup Faults

\* OrgNotFound with no answer taken for "not found".
OrgNotFoundNever(status) == FALSE

\* get_organization_by_name: `if resp.status_code == 404: return None`
OrgNotFound(status) == status = "404"

\* get_organization_by_name: `if resp.status_code != 200`
LookupFailed(status) == status /= "200"

\* DeleteOrgFailed with 404 taken for a failure.
DeleteOrgFailedOn404(status) == status /= "200"

\* delete_organization: `if resp.status_code not in (200, 404)`
DeleteOrgFailed(status) == status \notin {"200", "404"}

\* /delete_project: the admin check and the argument check.
StartDeleteProject(p) ==
    /\ Begin(p)
    /\ \E chat \in ChatIds, nargs \in 0..1, name \in ProjectNames :
         /\ cmd' = [cmd EXCEPT ![p] = "delete_project"]
         /\ message_chat' = [message_chat EXCEPT ![p] = chat]
         /\ IF ~_is_admin(chat)
            THEN /\ replies' = [replies EXCEPT ![p] = <<Reply("Unauthorized.", "")>>]
                 /\ pc' = [pc EXCEPT ![p] = "done"]
                 /\ UNCHANGED project_name
            ELSE IF nargs < 1
            THEN /\ replies' = [replies EXCEPT ![p] = <<Reply("Usage", "")>>]
                 /\ pc' = [pc EXCEPT ![p] = "done"]
                 /\ UNCHANGED project_name
            ELSE /\ project_name' = [project_name EXCEPT ![p] = name]
                 /\ pc' = [pc EXCEPT ![p] = "get_organization_by_name"]
                 /\ UNCHANGED replies
    /\ UNCHANGED <<remoteVars, chat_id, org_id, sa_id, ds_i, ret, exc, calls>>

\* get_organization_by_name, and the handler's `if org is None`.
GetOrganizationByName(p) ==
    /\ cmd[p] = "delete_project" /\ pc[p] = "get_organization_by_name"
    /\ \E st \in LookupStatuses(project_name[p]) :
         /\ Log(p, Call("GET /api/orgs/name", st, 0, ""))
         /\ IF st = "RequestError"
            THEN HandlerExcept(p, CannotReach) /\ UNCHANGED org_id
            ELSE IF OrgNotFound(st)
            THEN /\ replies' = [replies EXCEPT ![p] = Append(@, Reply("not found", ""))]
                 /\ pc' = [pc EXCEPT ![p] = "done"]
                 /\ UNCHANGED <<remoteVars, exc, org_id>>
            ELSE IF LookupFailed(st)
            THEN /\ HandlerExcept(p, GrafanaError("Failed to look up organization"))
                 /\ UNCHANGED org_id
            ELSE /\ org_id' = [org_id EXCEPT ![p] =
                        (CHOOSE o \in OrgNamed(project_name[p]) : TRUE).id]
                 /\ pc' = [pc EXCEPT ![p] = "delete_organization"]
                 /\ UNCHANGED <<remoteVars, exc, replies>>
    /\ KeepLocals /\ UNCHANGED ds_i

\* delete_organization(org["id"]); the platform drops what the organization
\* held with it.
DeleteOrganization(p) ==
    /\ cmd[p] = "delete_project" /\ pc[p] = "delete_organization"
    /\ \E st \in DeleteOrgStatuses(org_id[p]) :
         /\ Log(p, Call("DELETE /api/orgs", st, org_id[p], ""))
         /\ IF st = "RequestError" THEN HandlerExcept(p, CannotReach)
            ELSE IF DeleteOrgFailed(st)
            THEN HandlerExcept(p, GrafanaError("Failed to delete organization"))
            ELSE /\ orgs' = orgs \ OrgWithId(org_id[p])
                 /\ datasources' = {d \in datasources : d[1] /= org_id[p]}
                 /\ folders' = {f \in folders : f.org /= org_id[p]}
                 /\ serviceAccounts' = {a \in serviceAccounts : a.org /= org_id[p]}
                 /\ alertmanager' = alertmanager \ {org_id[p]}
                 /\ replies' = [replies EXCEPT ![p] =
                        Append(@, Reply("deleted successfully", ""))]
                 /\ pc' = [pc EXCEPT ![p] = "done"]
                 /\ UNCHANGED <<nextOrgId, nextSaId, exc>>
    /\ KeepLocals /\ UNCHANGED <<org_id, ds_i>>

\* ----------------------------------------------- GrafanaService: alerting
\*
\* No handler reaches these methods (cmd_create_project asks for
\* create_telegram_contact_point instead).  They are the service's alerting
\* interface, modelled as calls on an organization that exists when the call
\* is made.

ProjectOrgs == {o \in orgs : o.name /= MainOrgName}

\* POST /api/alertmanager/grafana/config/api/v1/alerts under X-Grafana-Org-Id
AlertmanagerStatuses(org) ==
    (IF OrgWithId(org) = {} THEN {"404"} ELSE {"202"}) \cup Faults

\* setup_alerting: `if am_resp.status_code not in (200, 201, 202)`
AlertmanagerFailed(status) == status \notin {"200", "201", "202"}

CallSetupAlerting(p) ==
    /\ Begin(p)
    /\ \E o \in ProjectOrgs, cid \in ChatIdArgs :
         /\ cmd' = [cmd EXCEPT ![p] = "setup_alerting"]
         /\ org_id' = [org_id EXCEPT ![p] = o.id]
         /\ chat_id' = [chat_id EXCEPT ![p] = cid]
         /\ pc' = [pc EXCEPT ![p] = "setup_alerting"]
    /\ UNCHANGED <<remoteVars, project_name, message_chat, sa_id, ds_i, ret, exc,
                   replies, calls>>

\* setup_alerting: one POST carrying the route and the Telegram receiver,
\* with the operator's credentials; no service account is involved.
SetupAlerting(p) ==
    /\ cmd[p] = "setup_alerting" /\ pc[p] = "setup_alerting"
    /\ \E st \in AlertmanagerStatuses(org_id[p]) :
         /\ Log(p, Call("POST /api/alertmanager/grafana/config/api/v1/alerts",
                        st, org_id[p], ""))
         /\ IF st = "RequestError" THEN ServiceRaise(p, CannotReach)
            ELSE IF AlertmanagerFailed(st)
            THEN ServiceRaise(p, GrafanaError("Failed to configure Alertmanager"))
            ELSE /\ alertmanager' = alertmanager \cup {org_id[p]}
                 /\ pc' = [pc EXCEPT ![p] = "done"]
                 /\ UNCHANGED <<orgs, nextOrgId, datasources, folders,
                                serviceAccounts, nextSaId, exc, replies>>
    /\ KeepLocals /\ UNCHANGED <<org_id, ds_i>>

\* POST /api/serviceaccounts under X-Grafana-Org-Id: the platform keeps the
\* name "grafana-bot-setup" unique within the organization.
CreateServiceAccountStatuses(org) ==
    (IF OrgWithId(org) = {} THEN {"404"}
     ELSE IF \E a \in serviceAccounts : a.org = org THEN {"400"}
     ELSE IF nextSaId <= MaxSaId THEN {"201"} ELSE {})
    \cup Faults

\* POST /api/serviceaccounts/{id}/tokens
CreateTokenStatuses(org, sa) ==
    {IF [org |-> org, id |-> sa] \in serviceAccounts THEN "200" ELSE "404"}
    \cup Faults

\* DELETE /api/serviceaccounts/{id}
DeleteServiceAccountStatuses(org, sa) ==
    {IF [org |-> org, id |-> sa] \in serviceAccounts THEN "200" ELSE "404"}
    \cup Faults

\* _create_temp_token: `if sa_resp.status_code not in (200, 201)`
CreateServiceAccountFailed(status) == status \notin {"200", "201"}

\* _create_temp_token: `if tok_resp.status_code not in (200, 201)`
CreateTokenFailed(status) == status \notin {"200", "201"}

CallCreateTempToken(p) ==
    /\ Begin(p)
    /\ \E o \in ProjectOrgs :
         /\ cmd' = [cmd EXCEPT ![p] = "_create_temp_token"]
         /\ org_id' = [org_id EXCEPT ![p] = o.id]
         /\ pc' = [pc EXCEPT ![p] = "_create_temp_token:serviceaccounts"]
    /\ UNCHANGED <<remoteVars, project_name, chat_id, message_chat, sa_id, ds_i, ret, exc,
                   replies, calls>>

\* _create_temp_token, the service account.  The method has no
\* `except httpx.RequestError`: a transport failure leaves it as raised.
CreateTempTokenServiceAccount(p) ==
    /\ cmd[p] = "_create_temp_token" /\ pc[p] = "_create_temp_token:serviceaccounts"
    /\ \E st \in CreateServiceAccountStatuses(org_id[p]) :
         /\ Log(p, Call("POST /api/serviceaccounts", st, org_id[p], ""))
         /\ IF st = "RequestError"
            THEN ServiceRaise(p, RequestError) /\ UNCHANGED sa_id
            ELSE IF CreateServiceAccountFailed(st)
            THEN /\ ServiceRaise(p, GrafanaError("Failed to create service account"))
                 /\ UNCHANGED sa_id
            ELSE /\ serviceAccounts' = serviceAccounts \cup
                                         {[org |-> org_id[p], id |-> nextSaId]}
                 /\ nextSaId' = nextSaId + 1
                 /\ sa_id' = [sa_id EXCEPT ![p] = nextSaId]
                 /\ pc' = [pc EXCEPT ![p] = "_create_temp_token:tokens"]
                 /\ UNCHANGED <<orgs, nextOrgId, datasources, folders,
                                alertmanager, exc, replies>>
    /\ UNCHANGED <<cmd, project_name, chat_id, message_chat, org_id, ds_i, ret, started>>

\* _create_temp_token, the token: on a refused or failed request the method
\* raises and the service account stays; on success it returns
\* (sa_id, token).
CreateTempTokenToken(p) ==
    /\ cmd[p] = "_create_temp_token" /\ pc[p] = "_create_temp_token:tokens"
    /\ \E st \in CreateTokenStatuses(org_id[p], sa_id[p]) :
         /\ Log(p, Call("POST /api/serviceaccounts/tokens", st, org_id[p], ""))
         /\ IF st = "RequestError"
            THEN ServiceRaise(p, RequestError) /\ UNCHANGED ret
            ELSE IF CreateTokenFailed(st)
            THEN /\ ServiceRaise(p, GrafanaError("Failed to create service account token"))
                 /\ UNCHANGED ret
            ELSE /\ ret' = [ret EXCEPT ![p] = [sa_id |-> sa_id[p], token |-> "key"]]
                 /\ pc' = [pc EXCEPT ![p] = "done"]
                 /\ UNCHANGED <<remoteVars, exc, replies>>
    /\ UNCHANGED <<cmd, project_name, chat_id, message_chat, org_id, sa_id, ds_i, started>>

\* The caller of _create_temp_token, holding the (sa_id, token) it returned,
\* goes on to _delete_service_account(org_id, sa_id).
CallDeleteServiceAccount(p) ==
    /\ cmd[p] = "_create_temp_token" /\ pc[p] = "done" /\ exc[p] = NoExc
    /\ started < MaxCommands
    /\ started' = started + 1
    /\ cmd' = [cmd EXCEPT ![p] = "_delete_service_account"]
    /\ sa_id' = [sa_id EXCEPT ![p] = ret[p].sa_id]
    /\ pc' = [pc EXCEPT ![p] = "_delete_service_account"]
    /\ calls' = [calls EXCEPT ![p] = <<>>]
    /\ UNCHANGED <<remoteVars, project_name, chat_id, message_chat, org_id, ds_i, ret, exc, replies>>

\* _delete_service_account: the DELETE's status is not looked at; a transport
\* failure is neither caught nor logged.
DeleteServiceAccount(p) ==
    /\ cmd[p] = "_delete_service_account" /\ pc[p] = "_delete_service_account"
    /\ \E st \in DeleteServiceAccountStatuses(org_id[p], sa_id[p]) :
         /\ Log(p, Call("DELETE /api/serviceaccounts", st, org_id[p], ""))
         /\ IF st = "RequestError" THEN ServiceRaise(p, RequestError)
            ELSE /\ serviceAccounts' =
                        IF st = "200"
                        THEN serviceAccounts \ {[org |-> org_id[p], id |-> sa_id[p]]}
                        ELSE serviceAccounts
                 /\ pc' = [pc EXCEPT ![p] = "done"]
                 /\ UNCHANGED <<orgs, nextOrgId, datasources, folders, nextSaId,
                                alertmanager, exc, replies>>
    /\ KeepLocals /\ UNCHANGED <<org_id, ds_i>>

\* ----------------------------------------------- GrafanaService:
\*                                                 provisioning, called again
\*
\* add_datasources and create_folder as calls of their own, on an
\* organization that exists: the way to run them on an organization that is
\* provisioned already, which cmd_create_project never does (it stops at
\* "already exists").

\* Names create_folder may be given: one with capitals and a blank, the name
\* that is its uid already, one of 60 characters, and one holding U+0130.
MyProject == <<"M", "y", " ", "P", "r", "o", "j", "e", "c", "t">>
SixtyCharacters == [i \in 1..60 |-> IF i % 3 = 1 THEN "X" ELSE IF i % 3 = 2 THEN " " ELSE "y"]
FolderNames ==
    {MyProject,
     <<"m", "y", "-", "p", "r", "o", "j", "e", "c", "t">>,
     SixtyCharacters,
     <<CapitalIWithDot, "Z">>}

CallAddDatasources(p) ==
    /\ Begin(p)
    /\ \E o \in ProjectOrgs :
         /\ cmd' = [cmd EXCEPT ![p] = "add_datasources"]
         /\ org_id' = [org_id EXCEPT ![p] = o.id]
         /\ project_name' = [project_name EXCEPT ![p] = o.name]
         /\ ds_i' = [ds_i EXCEPT ![p] = 1]
         /\ pc' = [pc EXCEPT ![p] = "add_datasources"]
    /\ UNCHANGED <<remoteVars, chat_id, message_chat, sa_id, ret, exc, replies, calls>>

CallCreateFolder(p) ==
    /\ Begin(p)
    /\ \E o \in ProjectOrgs, name \in FolderNames :
         /\ cmd' = [cmd EXCEPT ![p] = "create_folder"]
         /\ org_id' = [org_id EXCEPT ![p] = o.id]
         /\ project_name' = [project_name EXCEPT ![p] = name]
         /\ pc' = [pc EXCEPT ![p] = "create_folder"]
    /\ UNCHANGED <<remoteVars, chat_id, message_chat, sa_id, ds_i, ret, exc, replies, calls>>

\* A message no command handler took: the admin check, and no answer to
\* the admin chat.
catch_all(p) ==
    /\ Begin(p)
    /\ \E chat \in ChatIds :
         /\ cmd' = [cmd EXCEPT ![p] = "catch_all"]
         /\ message_chat' = [message_chat EXCEPT ![p] = chat]
         /\ replies' = [replies EXCEPT ![p] =
                IF ~_is_admin(chat) THEN <<Reply("Unauthorized.", "")>> ELSE <<>>]
         /\ pc' = [pc EXCEPT ![p] = "done"]
    /\ UNCHANGED <<remoteVars, project_name, chat_id, org_id, sa_id, ds_i, ret,
                   exc, calls>>

\* The handler has returned: the process takes the next update.
Return(p) ==
    /\ pc[p] = "done"
    /\ pc' = [pc EXCEPT ![p] = "idle"]
    /\ cmd' = [cmd EXCEPT ![p] = "none"]
    /\ project_name' = [project_name EXCEPT ![p] = <<>>]
    /\ chat_id' = [chat_id EXCEPT ![p] = ""]
    /\ message_chat' = [message_chat EXCEPT ![p] = ""]
    /\ org_id' = [org_id EXCEPT ![p] = 0]
    /\ sa_id' = [sa_id EXCEPT ![p] = 0]
    /\ ds_i' = [ds_i EXCEPT ![p] = 0]
    /\ ret' = [ret EXCEPT ![p] = <<>>]
    /\ exc' = [exc EXCEPT ![p] = NoExc]
    /\ replies' = [replies EXCEPT ![p] = <<>>]
    /\ calls' = [calls EXCEPT ![p] = <<>>]
    /\ UNCHANGED <<remoteVars, started>>

\* ---------------------------------------------------------- specification

Init ==
    /\ orgs = {[id |-> 1, name |-> MainOrgName]}
    /\ nextOrgId = 2
    /\ datasources = {}
    /\ folders = {}
    /\ serviceAccounts = {}
    /\ nextSaId = 1
    /\ alertmanager = {}
    /\ cmd = [p \in Procs |-> "none"]
    /\ pc = [p \in Procs |-> "idle"]
    /\ project_name = [p \in Procs |-> <<>>]
    /\ chat_id = [p \in Procs |-> ""]
    /\ message_chat = [p \in Procs |-> ""]
    /\ org_id = [p \in Procs |-> 0]
    /\ sa_id = [p \in Procs |-> 0]
    /\ ds_i = [p \in Procs |-> 0]
    /\ ret = [p \in Procs |-> <<>>]
    /\ exc = [p \in Procs |-> NoExc]
    /\ replies = [p \in Procs |-> <<>>]
    /\ calls = [p \in Procs |-> <<>>]
    /\ started = 0

Next ==
    \E p \in Procs :
        \/ cmd_help(p)
        \/ StartCreateProject(p)
        \/ CreateOrganizationCheck(p)
        \/ CreateOrganizationPost(p)
        \/ AddDatasource(p)
        \/ CreateFolder(p)
        \/ CreateTelegramContactPoint(p)
        \/ StartListProjects(p)
        \/ ListOrganizations(p)
        \/ StartDeleteProject(p)
        \/ GetOrganizationByName(p)
        \/ DeleteOrganization(p)
        \/ catch_all(p)
        \/ CallSetupAlerting(p)
        \/ SetupAlerting(p)
        \/ CallCreateTempToken(p)
        \/ CreateTempTokenServiceAccount(p)
        \/ CreateTempTokenToken(p)
        \/ CallDeleteServiceAccount(p)
        \/ DeleteServiceAccount(p)
        \/ Return(p)

Spec == Init /\ [][Next]_vars

\* /create_project alone, every running handler resumed in the end: the event loop resumes a task once the request it
\* awaits has answered or timed out (every client has timeout=10).
Resume(p) ==
    \/ CreateOrganizationCheck(p)
    \/ CreateOrganizationPost(p)
    \/ AddDatasource(p)
    \/ CreateFolder(p)
    \/ CreateTelegramContactPoint(p)

NextCreateProject ==
    \E p \in Procs :
        \/ StartCreateProject(p)
        \/ Resume(p)
        \/ Return(p)

SpecCreateProject ==
    Init /\ [][NextCreateProject]_vars /\ \A p \in Procs : WF_vars(Resume(p))


\* The provisioning methods called on their own, from the state a
\* /create_project leaves that created its organization and got no further.
InitService ==
    /\ orgs = {[id |-> 1, name |-> MainOrgName],
               [id |-> 2, name |-> <<"A", "c", "m", "e">>]}
    /\ nextOrgId = 3
    /\ datasources = {}
    /\ folders = {}
    /\ serviceAccounts = {}
    /\ nextSaId = 1
    /\ alertmanager = {}
    /\ cmd = [p \in Procs |-> "none"]
    /\ pc = [p \in Procs |-> "idle"]
    /\ project_name = [p \in Procs |-> <<>>]
    /\ chat_id = [p \in Procs |-> ""]
    /\ message_chat = [p \in Procs |-> ""]
    /\ org_id = [p \in Procs |-> 0]
    /\ sa_id = [p \in Procs |-> 0]
    /\ ds_i = [p \in Procs |-> 0]
    /\ ret = [p \in Procs |-> <<>>]
    /\ exc = [p \in Procs |-> NoExc]
    /\ replies = [p \in Procs |-> <<>>]
    /\ calls = [p \in Procs |-> <<>>]
    /\ started = 0

NextService ==
    \E p \in Procs :
        \/ CallAddDatasources(p)
        \/ AddDatasource(p)
        \/ CallCreateFolder(p)
        \/ CreateFolder(p)
        \/ Return(p)

SpecService == InitService /\ [][NextService]_vars

\* ------------------------------------------------------------- properties

Last(seq) == seq[Len(seq)]

\* The workflow step a remote call belongs to: 1 organization, 2 datasources,
\* 3 folder, 4 alerting.
StepOf(op) ==
    CASE op \in {"GET /api/orgs/name", "POST /api/orgs"} -> 1
      [] op = "POST /api/datasources" -> 2
      [] op = "POST /api/folders" -> 3
      [] OTHER -> 4

\* The answer to a call makes its step fail: no answer at all, a name that is
\* already taken, or a status outside the success and treated-as-success
\* codes of the interface table.
StepFailed(c) ==
    \/ c.status = "RequestError"
    \/ c.op = "GET /api/orgs/name" /\ c.status = "200"
    \/ c.op = "POST /api/orgs" /\ c.status \notin {"200", "201"}
    \/ c.op = "POST /api/datasources" /\ c.status \notin {"200", "201", "409"}
    \/ c.op = "POST /api/folders" /\ c.status \notin {"200", "201", "412"}
    \/ StepOf(c.op) = 4 /\ c.status \notin {"200", "201", "202"}

\* The call that completes its step when it succeeds.
CompletesStep(c) ==
    \/ c.op = "POST /api/orgs"
    \/ c.op = "POST /api/datasources" /\ c.ds = DatasourceNames[Len(DatasourceNames)]
    \/ c.op = "POST /api/folders"

CreateProjects == {p \in Procs : cmd[p] = "create_project"}

\* C1: the calls of a /create_project invocation run organization ->
\* datasources -> folder -> alerting: the first call belongs to the
\* organization step, every call that is followed by another one did not
\* fail, a call never belongs to an earlier step than the one before it, and
\* a step is entered only from the successful last call of the step before.
C1_StepsInOrder ==
    \A p \in CreateProjects :
        LET cs == calls[p] IN
        /\ cs /= <<>> => StepOf(cs[1].op) = 1
        /\ \A i \in 1..(Len(cs) - 1) :
             /\ ~StepFailed(cs[i])
             /\ \/ StepOf(cs[i + 1].op) = StepOf(cs[i].op)
                \/ /\ StepOf(cs[i + 1].op) = StepOf(cs[i].op) + 1
                   /\ CompletesStep(cs[i])

\* C1's case: an invocation whose sixth call is the folder's, after the
\* organization and the three datasources.
C1_Witness ==
    \E p \in CreateProjects :
        /\ Len(calls[p]) = 6
        /\ calls[p][6].op = "POST /api/folders"
        /\ calls[p][2].op = "POST /api/orgs"
        /\ calls[p][5].ds = "Tempo"

\* C2 as claimed: a /create_project invocation whose remote calls all
\* succeeded ends answering success with the id of the organization it
\* created, and not with an error.
C2_SuccessWhenAllCallsSucceed ==
    \A p \in CreateProjects :
        (/\ pc[p] = "done"
         /\ calls[p] /= <<>>
         /\ \A i \in DOMAIN calls[p] : ~StepFailed(calls[p][i]))
        => /\ Last(replies[p]).text = "created successfully"
           /\ exc[p] = NoExc
           /\ org_id[p] > 0

\* A step of invocation p.
StepBy(p) == pc'[p] /= pc[p] \/ calls'[p] /= calls[p]

\* C3: no step of a /create_project invocation removes anything from the
\* remote state, and the step in which it fails leaves the remote state as
\* it is and is no delete call.
C3_NoRollback ==
    [][\A p \in CreateProjects :
          StepBy(p) /\ pc[p] /= "done" =>
              /\ orgs \subseteq orgs'
              /\ datasources \subseteq datasources'
              /\ folders \subseteq folders'
              /\ \A i \in DOMAIN calls'[p] : calls'[p][i].op /= "DELETE /api/orgs"
              /\ pc'[p] = "done" => remoteVars' = remoteVars]_vars

\* C3's case: the folder step has failed and the organization and its three
\* datasources are there.
C3_Witness ==
    \E p \in CreateProjects :
        /\ pc[p] = "done"
        /\ exc[p] = GrafanaError("Failed to create folder")
        /\ OrgWithId(org_id[p]) /= {}
        /\ \A i \in DOMAIN DatasourceNames :
               <<org_id[p], DatasourceNames[i]>> \in datasources

\* The workflow step an error message names (0: none).
StepNamedBy(msg) ==
    CASE msg \in {"Organization already exists", "Failed to create organization"} -> 1
      [] msg \in {"Failed to add datasource " \o DatasourceNames[i] :
                     i \in DOMAIN DatasourceNames} -> 2
      [] msg = "Failed to create folder" -> 3
      [] msg = AttributeError.msg -> 4
      [] OTHER -> 0

\* The step a failed /create_project invocation was in.
FailedStep(p) ==
    IF exc[p].kind = "AttributeError" THEN 4 ELSE StepOf(Last(calls[p]).op)

\* C4 as claimed: the answer of a failed /create_project names the step that
\* failed, and no other.
C4_FailureNamesItsStep ==
    \A p \in CreateProjects :
        pc[p] = "done" /\ exc[p] /= NoExc
        => StepNamedBy(Last(replies[p]).msg) = FailedStep(p)

\* C5 as claimed, on the exit path of a refused or failed token request:
\* when _create_temp_token has raised, the service account it created is
\* gone.
C5_TempAccountDeletedOnExit ==
    \A p \in Procs :
        cmd[p] = "_create_temp_token" /\ pc[p] = "done" /\ exc[p] /= NoExc
        => [org |-> org_id[p], id |-> sa_id[p]] \notin serviceAccounts

\* C6 as claimed: when the platform refuses the request that carries the
\* contact point, the invocation has issued exactly one service-account
\* delete and fails naming the contact point.
C6_ContactPointFailure ==
    \A p \in Procs :
        (/\ cmd[p] = "setup_alerting" /\ pc[p] = "done"
         /\ Last(calls[p]).status \notin {"200", "201", "202", "RequestError"})
        => /\ Cardinality({i \in DOMAIN calls[p] :
                              calls[p][i].op = "DELETE /api/serviceaccounts"}) = 1
           /\ exc[p] = GrafanaError("Failed to create contact point")

\* C7 as claimed: deleting the service account never raises, so it cannot
\* replace the outcome of the call that cleans up with it.
C7_CleanupNeverRaises ==
    \A p \in Procs :
        cmd[p] = "_delete_service_account" /\ pc[p] = "done" => exc[p] = NoExc

AlreadyExists == GrafanaError("Organization already exists")

\* C8: when the lookup by name answers 200, /create_project issues no
\* further call (no POST /api/orgs), the step leaves the remote
\* organizations as they are, and the invocation fails with "already exists".
C8_AlreadyExistsNoCreate ==
    [][\A p \in Procs :
          (/\ cmd'[p] = "create_project"
           /\ calls'[p] /= <<>>
           /\ calls'[p][1].status = "200")
          => /\ Len(calls'[p]) = 1
             /\ calls[p] = <<>> =>
                  /\ orgs' = orgs
                  /\ exc'[p] = AlreadyExists
                  /\ Last(replies'[p]) = Reply("Error", AlreadyExists.msg)]_vars

\* C8's case: the lookup answered 200 and the invocation is over.
C8_Witness ==
    \E p \in CreateProjects :
        /\ pc[p] = "done"
        /\ calls[p] = <<Call("GET /api/orgs/name", "200", 0, "")>>
        /\ exc[p] = AlreadyExists
        /\ OrgNamed(project_name[p]) /= {}

\* C9: a delete call answered 200 or 404 ends /delete_project in success;
\* any other answer ends it in failure.
C9_DeleteIdempotent ==
    \A p \in Procs :
        (/\ cmd[p] = "delete_project" /\ calls[p] /= <<>>
         /\ Last(calls[p]).op = "DELETE /api/orgs")
        => IF Last(calls[p]).status \in {"200", "404"}
           THEN /\ exc[p] = NoExc
                /\ Last(replies[p]).text = "deleted successfully"
           ELSE /\ exc[p].kind = "GrafanaError"
                /\ Last(replies[p]).text = "Error"

\* C9's case: the delete call met an organization that was gone already (a
\* second delete of the same id) and the answer is success.
C9_Witness ==
    \E p \in Procs :
        /\ cmd[p] = "delete_project" /\ calls[p] /= <<>>
        /\ Last(calls[p]) = Call("DELETE /api/orgs", "404", org_id[p], "")
        /\ Last(replies[p]).text = "deleted successfully"
        /\ OrgWithId(org_id[p]) = {}

Range(seq) == {seq[i] : i \in DOMAIN seq}

\* C10: a list that succeeds returns exactly the remote organizations not
\* named "Main Org.", each once.
C10_ListExcludesMainOrg ==
    [][\A p \in Procs :
          (/\ cmd[p] = "list_projects" /\ pc[p] = "list_organizations"
           /\ pc'[p] = "done" /\ exc'[p] = NoExc)
          => /\ Range(ret'[p].orgs) = {o \in orgs : o.name /= MainOrgName}
             /\ Len(ret'[p].orgs) = Cardinality(Range(ret'[p].orgs))]_vars

\* C10's case: a list returned two organizations while "Main Org." exists.
C10_Witness ==
    \E p \in Procs :
        /\ cmd[p] = "list_projects" /\ pc[p] = "done" /\ exc[p] = NoExc
        /\ ret[p] /= <<>>
        /\ Len(ret[p].orgs) = 2
        /\ Len(ret[p].body) = 3
        /\ \E i \in DOMAIN ret[p].body : ret[p].body[i].name = MainOrgName


\* The datasources an organization holds.
DatasourcesOf(org) == {d[2] : d \in {x \in datasources : x[1] = org}}

AllDatasources == {DatasourceNames[i] : i \in DOMAIN DatasourceNames}

\* C11: in add_datasources a 409 never raises and never ends the loop early,
\* and a run whose answers are all 200, 201 or 409 returns without an error
\* after one call per datasource, the organization then holding exactly the
\* three datasources.
C11_DatasourcesIdempotent ==
    \A p \in Procs :
        cmd[p] = "add_datasources" /\ calls[p] /= <<>> =>
            LET cs == calls[p] IN
            /\ Last(cs).status = "409" =>
                 /\ exc[p] = NoExc
                 /\ Len(cs) < Len(DatasourceNames) => pc[p] = "add_datasources"
            /\ (pc[p] = "done"
                /\ \A i \in DOMAIN cs : cs[i].status \in {"200", "201", "409"})
               => /\ exc[p] = NoExc
                  /\ Len(cs) = Len(DatasourceNames)
                  /\ DatasourcesOf(org_id[p]) = AllDatasources

\* C11's case: a run on an organization that held the three datasources
\* already, each call answered 409.
C11_Witness ==
    \E p \in Procs :
        /\ cmd[p] = "add_datasources" /\ pc[p] = "done" /\ exc[p] = NoExc
        /\ Len(calls[p]) = 3
        /\ \A i \in DOMAIN calls[p] : calls[p][i].status = "409"
        /\ DatasourcesOf(org_id[p]) = AllDatasources


\* C12: add_datasources issues its calls in the order Prometheus, Loki,
\* Tempo; the first answer that is none of 200, 201, 409 is the last call of
\* the run, which fails with a GrafanaError naming that datasource, the
\* datasources before it staying in place.
C12_DatasourcesInOrderStopAtFailure ==
    \A p \in Procs :
        cmd[p] = "add_datasources" =>
            LET cs == calls[p]
                order == <<"Prometheus", "Loki", "Tempo">> IN
            /\ Len(cs) <= 3
            /\ \A i \in DOMAIN cs :
                 /\ cs[i].op = "POST /api/datasources"
                 /\ cs[i].ds = order[i]
                 /\ cs[i].status \notin {"200", "201", "409", "RequestError"} =>
                      /\ i = Len(cs)
                      /\ pc[p] = "done"
                      /\ exc[p] = GrafanaError("Failed to add datasource " \o order[i])
                      /\ \A j \in 1..(i - 1) : <<org_id[p], order[j]>> \in datasources

\* C12's case: Prometheus created, Loki refused, Tempo never asked for.
C12_Witness ==
    \E p \in Procs :
        /\ cmd[p] = "add_datasources" /\ pc[p] = "done"
        /\ Len(calls[p]) = 2
        /\ calls[p][1].status = "200" /\ calls[p][2].status = "500"
        /\ exc[p] = GrafanaError("Failed to add datasource Loki")
        /\ DatasourcesOf(org_id[p]) = {"Prometheus"}


\* The folders of an organization that carry a uid.
FoldersWithUid(org, uid) == {f \in folders : f.org = org /\ f.uid = uid}

\* C13: create_folder makes one call; answered 200, 201 or 412 it returns
\* without an error and the organization holds exactly one folder with the
\* uid derived from the name; any other response raises
\* GrafanaError("Failed to create folder").
C13_FolderIdempotent ==
    \A p \in Procs :
        cmd[p] = "create_folder" /\ calls[p] /= <<>> =>
            LET c == calls[p][1] IN
            /\ Len(calls[p]) = 1 /\ pc[p] = "done"
            /\ c.op = "POST /api/folders"
            /\ c.status \in {"200", "201", "412"} =>
                 /\ exc[p] = NoExc
                 /\ Cardinality(FoldersWithUid(org_id[p], FolderUid(project_name[p]))) = 1
            /\ c.status \notin {"200", "201", "412", "RequestError"} =>
                 exc[p] = GrafanaError("Failed to create folder")

\* C13's case: the folder provisioned twice for one organization and name,
\* created the first time and answered 412 the second.
C13_Witness ==
    \E p, q \in Procs :
        /\ p /= q
        /\ cmd[p] = "create_folder" /\ cmd[q] = "create_folder"
        /\ org_id[p] = org_id[q] /\ project_name[p] = project_name[q]
        /\ pc[p] = "done" /\ pc[q] = "done"
        /\ exc[p] = NoExc /\ exc[q] = NoExc
        /\ calls[p] /= <<>> /\ calls[p][1].status = "200"
        /\ calls[q] /= <<>> /\ calls[q][1].status = "412"
        /\ Cardinality(FoldersWithUid(org_id[p], FolderUid(project_name[p]))) = 1


Min(a, b) == IF a < b THEN a ELSE b

\* What str.lower() and replace(" ", "-") make of one ASCII character.
AsciiExpected(c) ==
    IF c = " " THEN "-"
    ELSE IF \E i \in 1..26 : UpperCase[i] = c
    THEN LowerCase[CHOOSE i \in 1..26 : UpperCase[i] = c]
    ELSE c

NoSpaceNoAsciiUpper(uid) ==
    \A i \in DOMAIN uid :
        uid[i] /= " " /\ \A k \in 1..26 : uid[i] /= UpperCase[k]

\* C14 as claimed: the uid of every folder is min(len(name), 40) characters
\* long and holds no space and no upper-case letter.
C14_AsClaimed ==
    \A f \in folders :
        /\ Len(f.uid) = Min(Len(f.title), 40)
        /\ NoSpaceNoAsciiUpper(f.uid)

\* C14: the uid of every folder is the first 40 characters of the lower-cased
\* name with hyphens for spaces: min(len(name.lower()), 40) characters, none a
\* space or an ASCII upper-case letter; where lower-casing keeps the number
\* of characters (no U+0130 in the name) that is min(len(name), 40)
\* characters, the i-th being the i-th of the name lower-cased or hyphenated.
C14_FolderUidDerivation ==
    \A f \in folders :
        /\ Len(f.uid) = Min(Len(Lower(f.title)), 40)
        /\ NoSpaceNoAsciiUpper(f.uid)
        /\ (\A i \in DOMAIN f.title : f.title[i] /= CapitalIWithDot) =>
             /\ Len(f.uid) = Min(Len(f.title), 40)
             /\ \A i \in DOMAIN f.uid : f.uid[i] = AsciiExpected(f.title[i])

\* C14's case: the folder of a 60-character name, its uid cut to 40, beside
\* the folder of a two-character name whose uid has three.
C14_Witness ==
    \E f, g \in folders :
        /\ f.title = SixtyCharacters /\ Len(f.uid) = 40
        /\ g.title = <<CapitalIWithDot, "Z">> /\ g.uid = <<"i", CombiningDot, "z">>


\* C15: /delete_project looks the organization up by name first; answered 404
\* it replies "not found" and makes no further call; answered 200 it goes on
\* with the id of the organization of that name; the DELETE is its second
\* and last call, carries that id, and once it is accepted no organization
\* with that id is left.
C15_DeleteResolvesThenDeletes ==
    [][\A p \in Procs :
         cmd'[p] = "delete_project" /\ Len(calls'[p]) = Len(calls[p]) + 1 =>
            LET c == Last(calls'[p]) IN
            /\ c.op = "GET /api/orgs/name" =>
                 /\ Len(calls'[p]) = 1
                 /\ c.status = "404" =>
                      /\ pc'[p] = "done"
                      /\ Last(replies'[p]).text = "not found"
                 /\ c.status = "200" =>
                      /\ pc'[p] = "delete_organization"
                      /\ \E o \in orgs : o.name = project_name[p] /\ org_id'[p] = o.id
                 /\ c.status \notin {"200", "404"} => pc'[p] = "done"
            /\ c.op = "DELETE /api/orgs" =>
                 /\ Len(calls'[p]) = 2
                 /\ calls[p][1].status = "200"
                 /\ c.org = org_id[p]
                 /\ pc'[p] = "done"
                 /\ c.status = "200" => \A o \in orgs' : o.id /= c.org
            /\ c.op \in {"GET /api/orgs/name", "DELETE /api/orgs"}
      ]_vars

\* C15's case: an organization found, deleted with one call, and gone.
C15_Witness ==
    \E p \in Procs :
        /\ cmd[p] = "delete_project" /\ pc[p] = "done"
        /\ Len(calls[p]) = 2
        /\ calls[p][1].status = "200"
        /\ calls[p][2].op = "DELETE /api/orgs" /\ calls[p][2].status = "200"
        /\ calls[p][2].org = org_id[p]
        /\ OrgWithId(org_id[p]) = {}
        /\ Last(replies[p]).text = "deleted successfully"


\* C16 as claimed: an operation whose request got no answer (httpx raised a
\* RequestError of whatever kind) ends with the one "Cannot reach Grafana"
\* error, never with the transport error itself.
C16_ConnectivityErrorUniform ==
    \A p \in Procs :
        (pc[p] = "done" /\ calls[p] /= <<>> /\ Last(calls[p]).status = "RequestError")
        => exc[p] = CannotReach


\* C17 as claimed: the request that configures alerting (contact point and
\* policy) goes out under a token minted by the same invocation, so a
\* service account and a token were created before it in that invocation,
\* and the invocation deletes the service account before it ends.
C17_TemporaryCredentialProtocol ==
    \A p \in Procs :
        \A i \in DOMAIN calls[p] :
            calls[p][i].op = "POST /api/alertmanager/grafana/config/api/v1/alerts"
            => /\ \E j \in 1..(i - 1), k \in 1..(i - 1) :
                    /\ j < k
                    /\ calls[p][j].op = "POST /api/serviceaccounts"
                    /\ calls[p][k].op = "POST /api/serviceaccounts/tokens"
                    /\ calls[p][k].status = "200"
               /\ pc[p] = "done" =>
                    \E d \in (i + 1)..Len(calls[p]) :
                        calls[p][d].op = "DELETE /api/serviceaccounts"


\* The position of POST /api/orgs in the log of an invocation, if any.
CreateCalls(p) == {i \in DOMAIN calls[p] : calls[p][i].op = "POST /api/orgs"}

\* C18: /create_project issues POST /api/orgs as a call of its own after an
\* existence check that did not find the name; whatever other invocations
\* did in between, this layer then never answers "already exists": a name
\* taken meanwhile comes back as the platform's conflict and ends the
\* invocation with "Failed to create organization", no organization added.
C18_CheckThenCreateNotAtomic ==
    \A p \in Procs :
        cmd[p] = "create_project" =>
            \A i \in CreateCalls(p) :
                /\ i = 2
                /\ calls[p][1].op = "GET /api/orgs/name"
                /\ calls[p][1].status \notin {"200", "RequestError"}
                /\ exc[p] /= AlreadyExists
                /\ calls[p][i].status = "409" =>
                     /\ exc[p] = GrafanaError("Failed to create organization")
                     /\ org_id[p] = 0

\* C18's case: two /create_project invocations for one name, each told by its
\* check that the name is free, each having sent POST /api/orgs; the platform
\* took one and refused the other.
C18_Witness ==
    \E p, q \in Procs :
        /\ p /= q
        /\ cmd[p] = "create_project" /\ cmd[q] = "create_project"
        /\ project_name[p] = project_name[q]
        /\ Len(calls[p]) >= 2 /\ Len(calls[q]) >= 2
        /\ calls[p][1].status = "404" /\ calls[q][1].status = "404"
        /\ calls[p][2].op = "POST /api/orgs" /\ calls[p][2].status = "200"
        /\ calls[q][2].op = "POST /api/orgs" /\ calls[q][2].status = "409"
        /\ exc[q] = GrafanaError("Failed to create organization")


\* C19: every datasource, folder, service account and alerting configuration
\* of the platform belongs to an organization that exists; and the datasource
\* and folder calls of /create_project come after its own accepted
\* POST /api/orgs and carry the id that call returned, the id of the
\* organization created under the project's name.
C19_ArtifactsReferenceExistingOrg ==
    /\ \A d \in datasources : OrgWithId(d[1]) /= {}
    /\ \A f \in folders : OrgWithId(f.org) /= {}
    /\ \A a \in serviceAccounts : OrgWithId(a.org) /= {}
    /\ \A o \in alertmanager : OrgWithId(o) /= {}
    /\ \A p \in Procs :
         cmd[p] = "create_project" =>
             \A i \in DOMAIN calls[p] :
                 calls[p][i].op \in {"POST /api/datasources", "POST /api/folders"} =>
                     /\ i > 2
                     /\ calls[p][2].op = "POST /api/orgs"
                     /\ calls[p][2].status \in {"200", "201"}
                     /\ calls[p][i].org = org_id[p]
                     /\ org_id[p] \notin {0, 1}
                     /\ \A o \in OrgWithId(org_id[p]) : o.name = project_name[p]

\* C19's case: /delete_project removed the organization while the
\* /create_project that made it was still provisioning; the datasource it
\* had added went with the organization and its next call was refused.
C19_Witness ==
    \E p, q \in Procs :
        /\ cmd[p] = "create_project" /\ cmd[q] = "delete_project"
        /\ Len(calls[p]) >= 4 /\ Len(calls[q]) = 2
        /\ calls[p][3].op = "POST /api/datasources" /\ calls[p][3].status = "200"
        /\ calls[q][2].op = "DELETE /api/orgs" /\ calls[q][2].status = "200"
        /\ calls[q][2].org = org_id[p]
        /\ Last(calls[p]).status = "404" /\ Last(calls[p]).org = org_id[p]
        /\ OrgWithId(org_id[p]) = {}


\* The request of a remote call, without its answer.
Request(c) == <<c.op, c.org, c.ds>>

\* A call that failed: no answer, or the platform's 500.
FailedCall(c) == c.status \in {"500", "RequestError"}

\* The calls whose failure status the code does not look at: the existence
\* check of create_organization (only 200 is tested) and the deletion of a
\* service account (the response is dropped).
StatusIgnored(p, c) ==
    \/ cmd[p] = "create_project" /\ c.op = "GET /api/orgs/name"
    \/ c.op = "DELETE /api/serviceaccounts"

Unauthorized(chat) == chat \notin {"", TELEGRAM_ADMIN_CHAT_ID}

\* C21: a handler answering a message from a chat other than the admin chat
\* replies "Unauthorized." once and is done: it has made no remote call, and
\* none of its steps changes the platform's state.
C21_UnauthorizedNoEffect ==
    [][\A p \in Procs :
         /\ Unauthorized(message_chat'[p]) =>
              /\ cmd'[p] \in {"help", "create_project", "list_projects",
                              "delete_project", "catch_all"}
              /\ calls'[p] = <<>>
              /\ replies'[p] = <<Reply("Unauthorized.", "")>>
              /\ pc'[p] = "done"
         /\ ((Unauthorized(message_chat[p]) \/ Unauthorized(message_chat'[p]))
             /\ pc'[p] /= pc[p])
            => UNCHANGED remoteVars
      ]_vars

\* C21's case: /delete_project from another chat while a project exists.
C21_Witness ==
    \E p \in Procs :
        /\ cmd[p] = "delete_project"
        /\ message_chat[p] = "other-chat"
        /\ replies[p] = <<Reply("Unauthorized.", "")>>
        /\ calls[p] = <<>>
        /\ ProjectOrgs /= {}


\* An invocation of /create_project that got past the admin check and the
\* argument check.
Creating(p) ==
    /\ cmd[p] = "create_project"
    /\ message_chat[p] = TELEGRAM_ADMIN_CHAT_ID
    /\ project_name[p] /= <<>>

\* C22, what has been answered: the "Creating project" notice first; nothing
\* more while the try block runs; once the handler has ended exactly one
\* more answer, the success message when nothing was raised and otherwise
\* the error carrying the message of what was raised.
C22_Answers ==
    \A p \in Procs :
        Creating(p) =>
            /\ replies[p] /= <<>>
            /\ replies[p][1] = Reply("Creating project", "")
            /\ pc[p] /= "done" => Len(replies[p]) = 1 /\ exc[p] = NoExc
            /\ pc[p] = "done" =>
                 /\ Len(replies[p]) = 2
                 /\ IF exc[p] = NoExc
                    THEN replies[p][2].text = "created successfully"
                    ELSE /\ replies[p][2].text \in {"Error", "Unexpected error"}
                         /\ replies[p][2].msg = exc[p].msg

\* C22: every /create_project from the admin chat with two arguments comes
\* to its end, and at every moment its answers are as C22_Answers says: one
\* final answer after the notice, never the success message and an error
\* both, no failure left unanswered.
C22_OneFinalReply ==
    /\ []C22_Answers
    /\ \A p \in Procs :
         (Creating(p) /\ pc[p] /= "done") ~> (pc[p] = "done" /\ Len(replies[p]) = 2)

\* C22's case: an invocation that provisioned the organization, its
\* datasources and its folder, ended by what the alerting step raised and
\* answered with that one error.
C22_Witness ==
    \E p \in Procs :
        /\ Creating(p) /\ pc[p] = "done"
        /\ Len(calls[p]) = 6
        /\ exc[p] = AttributeError
        /\ replies[p] = <<Reply("Creating project", ""),
                          Reply("Unexpected error", AttributeError.msg)>>

====
